---- MODULE Spec2Model ----
(***************************************************************************)
(* Model of the PN532 I2C transport layer (src/src/i2c.rs): the three      *)
(* interface variants I2CInterface, I2CInterfaceWithIrq and                *)
(* AsyncI2cInterface, each with the operations write, wait_ready and read, *)
(* driving an I2C bus (and, for the IRQ variant, a digital input pin).     *)
(*                                                                         *)
(* One interface instance is modelled; its variant is chosen in Init.  A   *)
(* call issues bus calls through the HAL primitives write / read / exec;   *)
(* the bus answers each call with data supplied by the device or with a    *)
(* bus error.  A bus call is one transaction: the bus is owned by the      *)
(* interface from the moment the call is issued until it completes, and    *)
(* another bus master can use the bus only while it is free.               *)
(***************************************************************************)
EXTENDS Integers, Sequences, FiniteSets, TLC

(***************************************************************************)
(* Bounds of the model.                                                    *)
(***************************************************************************)
\* longest buffer read
MaxLen == 4
\* longest frame written
MaxFrameLen == 2
\* payload bytes are drawn from 1..MaxPayloadByte and 0xFF
MaxPayloadByte == 4
\* number of distinct bus error values
NumErrors == 2
\* the count of bus calls issued by one call saturates here
MaxPolls == 3

(***************************************************************************)
(* Program constants.                                                      *)
(***************************************************************************)
PN532_I2C_READY == 1

\* mutant: the 8-bit (shifted) form of the address
I2C_ADDRESS_Shifted == 36 * 2

I2C_ADDRESS == 36

\* largest value of a u8
U8Max == 255

(***************************************************************************)
(* State.                                                                  *)
(***************************************************************************)
VARIABLES
    variant,      \* which interface the instance is
    pc,           \* "idle": no call in progress; "await": a bus call is
                  \* outstanding; "gap": the call is about to issue its next
                  \* bus call; "aborted": the program has panicked
    op,           \* the call in progress, or the last one
    frame,        \* argument of write
    buf,          \* argument of read: the caller's buffer
    idx,          \* position of the current bus call among Calls
    call,         \* the bus call issued last by this call
    nIssued,      \* number of bus calls issued by this call
    resp,         \* the answer to the bus call issued last by this call
    ret,          \* return value of the last call
    pin,          \* level of the IRQ pin sampled by this call
    busOwner,     \* "free", "pn532" (this interface) or "other" (another master)
    interleaved,  \* another master used the bus between two bus calls of this call
    cycle         \* history: where the calls before this one left the
                  \* write / wait_ready / read cycle

vars == <<variant, pc, op, frame, buf, idx, call, nIssued, resp, ret, pin, busOwner, interleaved, cycle>>

(***************************************************************************)
(* Value domains.                                                          *)
(***************************************************************************)
Variants == {"I2CInterface", "I2CInterfaceWithIrq", "AsyncI2cInterface"}

SyncVariants == {"I2CInterface", "I2CInterfaceWithIrq"}

\* every value a status byte can take
StatusBytes == 0..U8Max

\* payload bytes the device supplies: the layer never inspects them
PayloadBytes == (1..MaxPayloadByte) \cup {U8Max}

\* bytes of the frames written: the layer never inspects them
FrameBytes == {1, U8Max}

BusErrors == 1..NumErrors

PinLevels == {"low", "high"}

\* mutant: a pin whose read can fail
PinFailures_Fallible == {"fail"}

\* the failures of the pin read: InputPin<Error = Infallible> has none
PinFailures == {}

\* the outcomes of one read of the pin
PinSamples == PinLevels \cup PinFailures

SeqsUpTo(S, n) == UNION {[1..k -> S] : k \in 0..n}

Frames == SeqsUpTo(FrameBytes, MaxFrameLen)

Min(a, b) == IF a < b THEN a ELSE b

(***************************************************************************)
(* Result values: Result<(), E>, Poll<Result<(), E>>.                      *)
(***************************************************************************)
Ok == [kind |-> "Ok", e |-> 0]

Err(e) == [kind |-> "Err", e |-> e]

PollReady(r) == [kind |-> IF r.kind = "Ok" THEN "ReadyOk" ELSE "ReadyErr", e |-> r.e]

PollPending == [kind |-> "Pending", e |-> 0]

\* the loop of the asynchronous wait_ready goes round again: no return
Loop == [kind |-> "Loop", e |-> 0]

NoRet == [kind |-> "None", e |-> 0]

\* unwrap() of a failed pin read: the program aborts, nothing is returned
Panic == [kind |-> "Panic", e |-> 0]

(***************************************************************************)
(* The HAL bus primitives.  A bus call is a record: its kind, the device   *)
(* address, the bytes written, and the read operations it carries, each    *)
(* with the length and the destination of the bytes read ("tmp": a         *)
(* temporary, "local": the handler's local status buffer, "buf": the       *)
(* caller's buffer).                                                       *)
(***************************************************************************)
OpRead(dst, len) == [dst |-> dst, len |-> len]

BusWrite(addr, bytes) == [kind |-> "write", addr |-> addr, bytes |-> bytes, ops |-> <<>>]

BusRead(addr, dst, len) == [kind |-> "read", addr |-> addr, bytes |-> <<>>, ops |-> <<OpRead(dst, len)>>]

BusExec(addr, ops) == [kind |-> "exec", addr |-> addr, bytes |-> <<>>, ops |-> ops]

NoCall == [kind |-> "none", addr |-> 0, bytes |-> <<>>, ops |-> <<>>]

\* an answer of the bus: success with the bytes the device supplied, or an error
RespOk(data) == [st |-> "ok", e |-> 0, data |-> data]

RespErr(e) == [st |-> "err", e |-> e, data |-> <<>>]

NoResp == [st |-> "none", e |-> 0, data |-> <<>>]

RECURSIVE TotalLen(_)
\* number of bytes the read operations of one transaction take from the device
TotalLen(ops) == IF ops = <<>> THEN 0 ELSE Head(ops).len + TotalLen(Tail(ops))

\* consecutive read operations of one transaction are served from one
\* contiguous read: operation i receives the bytes after those of 1..i-1
OpData(ops, data, i) ==
    LET off == TotalLen(SubSeq(ops, 1, i - 1))
    IN  SubSeq(data, off + 1, off + ops[i].len)

\* the bytes a completed bus call leaves in the destination dst, old if none
Filled(ops, data, dst, old) ==
    IF \E i \in 1..Len(ops) : ops[i].dst = dst
    THEN OpData(ops, data, CHOOSE i \in 1..Len(ops) : ops[i].dst = dst)
    ELSE old

\* Result<(), E> of a bus primitive
BusResult(r) == IF r.st = "ok" THEN Ok ELSE Err(r.e)

\* mutant: the error is replaced by a fixed error value
From_Fixed(e) == 1

\* the conversion `?` applies to the error: From<E> for E
From(e) == e

(***************************************************************************)
(* I2CInterface                                                            *)
(***************************************************************************)

\* write: self.i2c.write(I2C_ADDRESS, frame)
I2CInterface_write(f) == <<BusWrite(I2C_ADDRESS, f)>>

\* wait_ready: self.i2c.read(I2C_ADDRESS, &mut buf) with buf = [0]
I2CInterface_wait_ready == <<BusRead(I2C_ADDRESS, "local", 1)>>

\* mutant: any non-zero status byte counts as ready
I2CInterface_wait_ready_ret_NonZero(r) ==
    IF r.st = "err" THEN PollReady(Err(From(r.e)))
    ELSE IF r.data[1] # 0 THEN PollReady(Ok)
    ELSE PollPending

\* mutant: a failed status read is reported as Pending
I2CInterface_wait_ready_ret_ErrPending(r) ==
    IF r.st = "err" THEN PollPending
    ELSE IF r.data[1] = PN532_I2C_READY THEN PollReady(Ok)
    ELSE PollPending

\* mutant: the call reads again until the device is ready
I2CInterface_wait_ready_ret_Blocking(r) ==
    IF r.st = "err" THEN PollReady(Err(From(r.e)))
    ELSE IF r.data[1] = PN532_I2C_READY THEN PollReady(Ok)
    ELSE Loop

\* mutant: once Ready-success was reported, it is reported again without
\* looking at the status byte
I2CInterface_wait_ready_ret_Latched(r) ==
    IF r.st = "err" THEN PollReady(Err(From(r.e)))
    ELSE IF cycle = "Ready" \/ r.data[1] = PN532_I2C_READY THEN PollReady(Ok)
    ELSE PollPending

\* wait_ready, after the read: `?`, then the comparison with the sentinel
I2CInterface_wait_ready_ret(r) ==
    IF r.st = "err" THEN PollReady(Err(From(r.e)))
    ELSE IF r.data[1] = PN532_I2C_READY THEN PollReady(Ok)
    ELSE PollPending

\* mutant: the two read operations in the other order
I2CInterface_read_DiscardLast(n) == <<BusExec(I2C_ADDRESS, <<OpRead("buf", n), OpRead("tmp", 1)>>)>>

\* read: self.i2c.exec(I2C_ADDRESS, [Read(&mut [0]), Read(buf)])
I2CInterface_read(n) == <<BusExec(I2C_ADDRESS, <<OpRead("tmp", 1), OpRead("buf", n)>>)>>

(***************************************************************************)
(* I2CInterfaceWithIrq                                                     *)
(***************************************************************************)
\* mutant: the last byte of the frame is not sent
I2CInterfaceWithIrq_write_Truncated(f) == <<BusWrite(I2C_ADDRESS, SubSeq(f, 1, Len(f) - 1))>>

I2CInterfaceWithIrq_write(f) == <<BusWrite(I2C_ADDRESS, f)>>

\* InputPin::is_low of an infallible pin
is_low(level) == level = "low"

\* mutant: the pin is taken as active-high
I2CInterfaceWithIrq_wait_ready_ActiveHigh(level) ==
    IF is_low(level) THEN PollPending ELSE PollReady(Ok)

\* wait_ready: samples the pin, no bus call; unwrap() of the sample
I2CInterfaceWithIrq_wait_ready(level) ==
    IF level \in PinFailures THEN Panic
    ELSE IF is_low(level) THEN PollReady(Ok) ELSE PollPending

\* mutant: the framing byte and the payload are read by two bus reads
I2CInterfaceWithIrq_read_TwoReads(n) == <<BusRead(I2C_ADDRESS, "tmp", 1), BusRead(I2C_ADDRESS, "buf", n)>>

I2CInterfaceWithIrq_read(n) == <<BusExec(I2C_ADDRESS, <<OpRead("tmp", 1), OpRead("buf", n)>>)>>

(***************************************************************************)
(* AsyncI2cInterface                                                       *)
(***************************************************************************)
AsyncI2cInterface_write(f) == <<BusWrite(I2C_ADDRESS, f)>>

\* wait_ready: the read issued by each round of the loop
AsyncI2cInterface_wait_ready == <<BusRead(I2C_ADDRESS, "local", 1)>>

\* mutant: the loop ends on any status byte read
AsyncI2cInterface_wait_ready_ret_AnyByte(r) ==
    IF r.st = "err" THEN Err(From(r.e))
    ELSE Ok

\* mutant: a failed status read is retried
AsyncI2cInterface_wait_ready_ret_RetryOnError(r) ==
    IF r.st = "err" THEN Loop
    ELSE IF r.data[1] = PN532_I2C_READY THEN Ok
    ELSE Loop

\* wait_ready, after the read of one round: `?`, return on the sentinel, else loop
AsyncI2cInterface_wait_ready_ret(r) ==
    IF r.st = "err" THEN Err(From(r.e))
    ELSE IF r.data[1] = PN532_I2C_READY THEN Ok
    ELSE Loop

\* read: self.i2c.read(I2C_ADDRESS, buf)
AsyncI2cInterface_read(n) == <<BusRead(I2C_ADDRESS, "buf", n)>>

(***************************************************************************)
(* The cycle Idle -> WriteIssued -> ReadyCheck -> Ready -> Idle, as an     *)
(* observer of the calls made and of their results.                        *)
(***************************************************************************)
CycleStates == {"Idle", "WriteIssued", "ReadyCheck", "Ready"}

\* the state of the cycle after a call o that returned r in state c
NextCycle(c, o, r) ==
    CASE o = "none" -> c
      [] r.kind \in {"Err", "ReadyErr"} -> "Idle"
      [] o = "write" -> "WriteIssued"
      [] o = "read" -> "Idle"
      [] o = "wait_ready" /\ c = "Idle" -> "Idle"
      [] o = "wait_ready" /\ c = "Ready" -> "Ready"
      [] o = "wait_ready" /\ r.kind \in {"Ok", "ReadyOk"} -> "Ready"
      [] OTHER -> "ReadyCheck"

(***************************************************************************)
(* Dispatch on the variant.                                                *)
(***************************************************************************)
\* the bus calls of operation o, in program order
Calls(v, o, f, n) ==
    CASE v = "I2CInterface" /\ o = "write" -> I2CInterface_write(f)
      [] v = "I2CInterface" /\ o = "wait_ready" -> I2CInterface_wait_ready
      [] v = "I2CInterface" /\ o = "read" -> I2CInterface_read(n)
      [] v = "I2CInterfaceWithIrq" /\ o = "write" -> I2CInterfaceWithIrq_write(f)
      [] v = "I2CInterfaceWithIrq" /\ o = "read" -> I2CInterfaceWithIrq_read(n)
      [] v = "AsyncI2cInterface" /\ o = "write" -> AsyncI2cInterface_write(f)
      [] v = "AsyncI2cInterface" /\ o = "wait_ready" -> AsyncI2cInterface_wait_ready
      [] v = "AsyncI2cInterface" /\ o = "read" -> AsyncI2cInterface_read(n)
      [] OTHER -> <<>>

\* mutant: a failed read is tried again
Ret_ReadRetries(v, o, r) ==
    CASE v = "I2CInterface" /\ o = "wait_ready" -> I2CInterface_wait_ready_ret(r)
      [] v = "AsyncI2cInterface" /\ o = "wait_ready" -> AsyncI2cInterface_wait_ready_ret(r)
      [] o = "read" /\ r.st = "err" -> Loop
      [] OTHER -> BusResult(r)

\* what operation o does with the answer r of its bus call
Ret(v, o, r) ==
    CASE v = "I2CInterface" /\ o = "wait_ready" -> I2CInterface_wait_ready_ret(r)
      [] v = "AsyncI2cInterface" /\ o = "wait_ready" -> AsyncI2cInterface_wait_ready_ret(r)
      [] OTHER -> BusResult(r)

\* the answers the bus can give to call c of operation o
Responses(o, c) ==
    LET dom == IF o = "wait_ready" THEN StatusBytes ELSE PayloadBytes
    IN  {RespOk(d) : d \in [1..TotalLen(c.ops) -> dom]} \cup {RespErr(e) : e \in BusErrors}

Init ==
    /\ variant \in Variants
    /\ pc = "idle"
    /\ op = "none"
    /\ frame = <<>>
    /\ buf = <<>>
    /\ idx = 0
    /\ call = NoCall
    /\ nIssued = 0
    /\ resp = NoResp
    /\ ret = NoRet
    /\ pin = "none"
    /\ busOwner = "free"
    /\ interleaved = FALSE
    /\ cycle = "Idle"

\* mutant: a call begins while the call before it has not returned
Begin_Concurrent(o, f, b) ==
    /\ busOwner = "free"
    /\ op' = o
    /\ frame' = f
    /\ buf' = b
    /\ idx' = 1
    /\ call' = Calls(variant, o, f, Len(b))[1]
    /\ nIssued' = 1
    /\ resp' = NoResp
    /\ ret' = NoRet
    /\ pin' = "none"
    /\ busOwner' = "pn532"
    /\ interleaved' = FALSE
    /\ cycle' = NextCycle(cycle, op, ret)
    /\ pc' = "await"
    /\ UNCHANGED variant

\* a call begins and issues its first bus call; `&mut self`: the call
\* before it has returned
Begin(o, f, b) ==
    /\ pc = "idle"
    /\ busOwner = "free"
    /\ op' = o
    /\ frame' = f
    /\ buf' = b
    /\ idx' = 1
    /\ call' = Calls(variant, o, f, Len(b))[1]
    /\ nIssued' = 1
    /\ resp' = NoResp
    /\ ret' = NoRet
    /\ pin' = "none"
    /\ busOwner' = "pn532"
    /\ interleaved' = FALSE
    /\ cycle' = NextCycle(cycle, op, ret)
    /\ pc' = "await"
    /\ UNCHANGED variant

Write(f) == Begin("write", f, <<>>)

Read(n) == Begin("read", <<>>, [i \in 1..n |-> 0])

WaitReady ==
    /\ variant # "I2CInterfaceWithIrq"
    /\ Begin("wait_ready", <<>>, <<>>)

\* the IRQ variant's wait_ready: one sample of the pin
WaitReadyIrq(level) ==
    /\ variant = "I2CInterfaceWithIrq"
    /\ pc = "idle"
    /\ op' = "wait_ready"
    /\ frame' = <<>>
    /\ buf' = <<>>
    /\ idx' = 0
    /\ call' = NoCall
    /\ nIssued' = 0
    /\ resp' = NoResp
    /\ pin' = level
    /\ ret' = I2CInterfaceWithIrq_wait_ready(level)
    /\ interleaved' = FALSE
    /\ cycle' = NextCycle(cycle, op, ret)
    /\ pc' = IF level \in PinFailures THEN "aborted" ELSE pc
    /\ UNCHANGED <<variant, busOwner>>

\* the outstanding bus call completes with answer r and the call resumes
Complete(r) ==
    /\ resp' = r
    /\ busOwner' = "free"
    /\ buf' = IF r.st = "ok" THEN Filled(call.ops, r.data, "buf", buf) ELSE buf
    /\ IF r.st = "ok" /\ idx < Len(Calls(variant, op, frame, Len(buf)))
       THEN /\ pc' = "gap"
            /\ idx' = idx + 1
            /\ UNCHANGED ret
       ELSE IF Ret(variant, op, r) = Loop
       THEN /\ pc' = "gap"
            /\ idx' = 1
            /\ UNCHANGED ret
       ELSE /\ pc' = "idle"
            /\ ret' = Ret(variant, op, r)
            /\ UNCHANGED idx
    /\ UNCHANGED <<variant, op, frame, call, nIssued, pin, interleaved, cycle>>

BusComplete ==
    /\ pc = "await"
    /\ \E r \in Responses(op, call) : Complete(r)

\* the call issues its next bus call
IssueNext ==
    /\ pc = "gap"
    /\ busOwner = "free"
    /\ call' = Calls(variant, op, frame, Len(buf))[idx]
    /\ nIssued' = Min(nIssued + 1, MaxPolls)
    /\ resp' = NoResp
    /\ busOwner' = "pn532"
    /\ pc' = "await"
    /\ UNCHANGED <<variant, op, frame, buf, idx, ret, pin, interleaved, cycle>>

\* another master takes the free bus
OtherActor ==
    /\ busOwner = "free"
    /\ busOwner' = "other"
    /\ interleaved' = (interleaved \/ pc = "gap")
    /\ UNCHANGED <<variant, pc, op, frame, buf, idx, call, nIssued, resp, ret, pin, cycle>>

\* and releases it
OtherRelease ==
    /\ busOwner = "other"
    /\ busOwner' = "free"
    /\ UNCHANGED <<variant, pc, op, frame, buf, idx, call, nIssued, resp, ret, pin, interleaved, cycle>>

Next ==
    \/ \E f \in Frames : Write(f)
    \/ \E n \in 0..MaxLen : Read(n)
    \/ WaitReady
    \/ \E level \in PinSamples : WaitReadyIrq(level)
    \/ BusComplete
    \/ IssueNext
    \/ OtherActor
    \/ OtherRelease

Spec == Init /\ [][Next]_vars

TypeOK ==
    /\ variant \in Variants
    /\ pc \in {"idle", "await", "gap", "aborted"}
    /\ op \in {"none", "write", "wait_ready", "read"}
    /\ nIssued \in 0..MaxPolls
    /\ busOwner \in {"free", "pn532", "other"}
    /\ interleaved \in BOOLEAN
    /\ cycle \in CycleStates
    /\ Len(buf) <= MaxLen
    /\ Len(frame) <= MaxFrameLen

(***************************************************************************)
(* Properties.                                                             *)
(***************************************************************************)

\* C1: in every variant write(F) issues exactly one bus write, whose payload
\* is F byte for byte (the empty frame included) and whose target is the
\* device address, issues no other bus operation, and returns the result
\* of that bus write.
C1_WriteForwardsFrame ==
    op = "write" =>
        /\ nIssued = 1
        /\ pc # "gap"
        /\ call = [kind |-> "write", addr |-> I2C_ADDRESS, bytes |-> frame, ops |-> <<>>]
        /\ (pc = "idle" => /\ resp.st \in {"ok", "err"}
                           /\ ret = IF resp.st = "ok" THEN Ok ELSE Err(resp.e))

C1_Witness ==
    /\ variant = "AsyncI2cInterface"
    /\ op = "write"
    /\ pc = "idle"
    /\ frame = <<>>
    /\ call.kind = "write"
    /\ ret = Ok

\* C2: status-byte variant: when the 1-byte read of wait_ready() succeeds
\* with byte b, the call returns Ready-success iff b = 0x01 and Pending for
\* every other b in 0..255, 0x00 included.
C2_StatusByteDecides ==
    (variant = "I2CInterface" /\ op = "wait_ready" /\ pc = "idle" /\ resp.st = "ok") =>
        /\ Len(resp.data) = 1
        /\ resp.data[1] \in 0..255
        /\ (ret.kind = "ReadyOk" <=> resp.data[1] = 1)
        /\ (resp.data[1] # 1 => ret = PollPending)

C2_Witness ==
    /\ variant = "I2CInterface"
    /\ op = "wait_ready"
    /\ pc = "idle"
    /\ resp = RespOk(<<0>>)
    /\ ret = PollPending

\* C3: IRQ variant: wait_ready() returns Ready-success iff the pin level it
\* sampled is low, and Pending when it is high.
C3_IrqLevelDecides ==
    (variant = "I2CInterfaceWithIrq" /\ op = "wait_ready") =>
        /\ pc = "idle"
        /\ pin \in PinLevels
        /\ (ret = PollReady(Ok) <=> pin = "low")
        /\ (pin = "high" => ret = PollPending)

C3_Witness ==
    /\ variant = "I2CInterfaceWithIrq"
    /\ op = "wait_ready"
    /\ pin = "low"
    /\ ret.kind = "ReadyOk"

\* C4: synchronous variants: read(buf) with N = len(buf) >= 0 issues one bus
\* transaction that reads 1+N bytes from the device, discards the first and
\* leaves exactly the trailing N bytes in buf, in order.
C4_SyncReadStripsFirstByte ==
    (variant \in SyncVariants /\ op = "read") =>
        /\ nIssued = 1
        /\ pc # "gap"
        /\ call.addr = I2C_ADDRESS
        /\ TotalLen(call.ops) = 1 + Len(buf)
        /\ (pc = "idle" /\ resp.st = "ok" =>
               /\ Len(resp.data) = 1 + Len(buf)
               /\ buf = Tail(resp.data)
               /\ ret = Ok)

C4_Witness ==
    /\ variant = "I2CInterface"
    /\ op = "read"
    /\ pc = "idle"
    /\ resp = RespOk(<<255, 1, 2, 3, 4>>)
    /\ buf = <<1, 2, 3, 4>>
    /\ ret = Ok

\* C5: asynchronous variant: read(buf) reads 1+len(buf) bytes from the
\* device, discards exactly one leading framing byte and returns the
\* trailing len(buf) bytes, as the status-byte variant's read does.
C5_AsyncReadStripsFirstByte ==
    (variant = "AsyncI2cInterface" /\ op = "read") =>
        /\ TotalLen(call.ops) = 1 + Len(buf)
        /\ (pc = "idle" /\ resp.st = "ok" =>
               /\ Len(resp.data) = 1 + Len(buf)
               /\ buf = Tail(resp.data))

\* C6: in every variant, when the bus primitive called by write, wait_ready
\* or read fails with error e, the operation returns that same e (not
\* wrapped, not replaced, not turned into success) and issues no further
\* bus operation in that call.
C6_BusErrorPropagates ==
    resp.st = "err" =>
        /\ pc = "idle"
        /\ busOwner # "pn532"
        /\ ret.e = resp.e
        /\ ret.kind = IF variant \in SyncVariants /\ op = "wait_ready"
                      THEN "ReadyErr" ELSE "Err"

C6_Witness ==
    /\ variant = "AsyncI2cInterface"
    /\ op = "wait_ready"
    /\ nIssued = 2
    /\ resp = RespErr(2)
    /\ pc = "idle"
    /\ ret = Err(2)

\* C7: status-byte variant: when the status read of wait_ready() fails with
\* bus error e, the call returns a completed (Ready) result carrying e,
\* never Pending and never Ready-success.
C7_StatusErrorIsReadyErr ==
    (variant = "I2CInterface" /\ op = "wait_ready" /\ resp.st = "err") =>
        /\ pc = "idle"
        /\ ret = [kind |-> "ReadyErr", e |-> resp.e]
        /\ ret # PollPending
        /\ ret # PollReady(Ok)

C7_Witness ==
    /\ variant = "I2CInterface"
    /\ op = "wait_ready"
    /\ pc = "idle"
    /\ resp = RespErr(1)
    /\ ret.kind = "ReadyErr"

\* C8: the asynchronous wait_ready() issues at least one 1-byte status read
\* before it returns, even when the device is ready at once, and when it
\* returns success the last status read it issued succeeded with 0x01.
C8_AsyncWaitReadsFirst ==
    (variant = "AsyncI2cInterface" /\ op = "wait_ready" /\ pc = "idle") =>
        /\ nIssued >= 1
        /\ call.kind = "read"
        /\ call.addr = I2C_ADDRESS
        /\ TotalLen(call.ops) = 1
        /\ (ret = Ok => resp = RespOk(<<1>>))

C8_Witness ==
    /\ variant = "AsyncI2cInterface"
    /\ op = "wait_ready"
    /\ pc = "idle"
    /\ nIssued = 1
    /\ resp = RespOk(<<1>>)
    /\ ret = Ok

\* a status read that ends the asynchronous wait_ready: the sentinel or an error
Terminal(r) == r.st = "err" \/ (r.st = "ok" /\ r.data = <<1>>)

AsyncWait == variant = "AsyncI2cInterface" /\ op = "wait_ready"

\* C9: the asynchronous wait_ready() returns only upon a status read that
\* observes 0x01 or fails: it issues reads up to and including the first
\* such read and none after it, returns the outcome of that read as soon
\* as it occurs, and does not return (there is no timeout) while every
\* read succeeds with another byte: it then issues the next read.
C9_AsyncWaitReturnsOnlyOnTerminalRead ==
    /\ [](AsyncWait =>
            /\ (pc = "idle" <=> Terminal(resp))
            /\ (pc = "idle" => ret = IF resp.st = "ok" THEN Ok ELSE Err(resp.e))
            /\ (pc = "gap" => resp.st = "ok" /\ resp.data[1] # 1)
            /\ (pc = "await" => resp = NoResp))
    /\ [][(AsyncWait /\ AsyncWait' /\ pc = "await") =>
            /\ (Terminal(resp') => pc' = "idle")
            /\ (~Terminal(resp') => pc' = "gap" /\ ret' = NoRet)]_vars
    /\ [][(AsyncWait /\ pc = "gap" /\ pc' # "gap") =>
            /\ pc' = "await"
            /\ AsyncWait'
            /\ call' = call]_vars

C9_Witness ==
    /\ AsyncWait
    /\ pc = "idle"
    /\ nIssued = MaxPolls
    /\ resp = RespOk(<<1>>)
    /\ ret = Ok

\* C10: synchronous variants: read(buf) hands the framing-byte read and the
\* payload read to the bus as one transaction call (one exec carrying both
\* read operations), never as two bus reads, so that no other master uses
\* the bus between the framing byte and the payload.
C10_SyncReadIsOneTransaction ==
    (variant \in SyncVariants /\ op = "read") =>
        /\ nIssued = 1
        /\ call.kind = "exec"
        /\ call.ops = <<OpRead("tmp", 1), OpRead("buf", Len(buf))>>
        /\ ~interleaved
        /\ (busOwner = "other" => pc = "idle")

C10_Witness ==
    /\ variant = "I2CInterfaceWithIrq"
    /\ op = "read"
    /\ pc = "idle"
    /\ call.kind = "exec"
    /\ Len(buf) = 2
    /\ resp.st = "ok"
    /\ busOwner = "other"

\* C11: IRQ variant: wait_ready() has only two possible return values,
\* Ready-success and Pending: it never returns a failed Ready result, it
\* issues no bus operation, and Pending is returned only for a pin that was
\* read and found high, never for a failed read of the pin (the pin has no
\* error channel; a failure would abort the program).
C11_IrqWaitReadyTwoOutcomes ==
    (variant = "I2CInterfaceWithIrq" /\ op = "wait_ready") =>
        /\ ret \in {PollReady(Ok), PollPending}
        /\ ret.kind # "ReadyErr"
        /\ pc # "aborted"
        /\ (ret = PollPending => pin = "high")
        /\ nIssued = 0
        /\ call = NoCall
        /\ resp = NoResp
        /\ busOwner # "pn532"

C11_Witness ==
    /\ variant = "I2CInterfaceWithIrq"
    /\ op = "wait_ready"
    /\ pin = "high"
    /\ ret = PollPending
    /\ nIssued = 0
    /\ cycle = "WriteIssued"

\* C12: in the synchronous variants wait_ready() is a single non-blocking
\* poll: each invocation makes exactly one readiness check (one 1-byte
\* status read, or one pin sample) and then returns, whatever the outcome;
\* on Pending it does not read again.  The asynchronous wait_ready() never
\* reports Pending.
C12_SyncWaitReadyIsOnePoll ==
    /\ (variant = "I2CInterface" /\ op = "wait_ready") =>
          /\ nIssued = 1
          /\ pc \in {"await", "idle"}
          /\ call = [kind |-> "read", addr |-> I2C_ADDRESS, bytes |-> <<>>,
                     ops |-> <<[dst |-> "local", len |-> 1]>>]
          /\ (pc = "await" <=> resp = NoResp)
          /\ (pc = "idle" => ret.kind \in {"ReadyOk", "ReadyErr", "Pending"})
    /\ (variant = "I2CInterfaceWithIrq" /\ op = "wait_ready") =>
          /\ nIssued = 0
          /\ pc = "idle"
          /\ pin \in PinLevels
          /\ ret.kind \in {"ReadyOk", "Pending"}
    /\ variant = "AsyncI2cInterface" => ret.kind \in {"None", "Ok", "Err"}

C12_Witness ==
    /\ variant = "I2CInterface"
    /\ op = "wait_ready"
    /\ pc = "idle"
    /\ nIssued = 1
    /\ resp = RespOk(<<255>>)
    /\ ret = PollPending
    /\ busOwner = "free"

\* C13: no state persists between calls: whatever calls came before and
\* whatever they returned, the result of a call is determined by its
\* argument and by the bus / pin responses observed during that call.  A
\* wait_ready() after one that returned Pending returns Ready-success when
\* it observes 0x01 (or pin low), and a wait_ready() after one that
\* returned Ready-success returns Pending when it observes another byte
\* (or pin high).
C13_ResultDependsOnThisCallOnly ==
    (pc = "idle" /\ op # "none") =>
        /\ ret = CASE op = "wait_ready" /\ variant = "I2CInterfaceWithIrq" ->
                        IF pin = "low" THEN PollReady(Ok) ELSE PollPending
                   [] op = "wait_ready" /\ variant = "I2CInterface" ->
                        IF resp.st = "err" THEN PollReady(Err(resp.e))
                        ELSE IF resp.data = <<1>> THEN PollReady(Ok) ELSE PollPending
                   [] OTHER ->
                        IF resp.st = "err" THEN Err(resp.e) ELSE Ok
        /\ buf = IF op = "read" /\ resp.st = "ok"
                 THEN IF variant \in SyncVariants THEN Tail(resp.data) ELSE resp.data
                 ELSE [i \in 1..Len(buf) |-> 0]
        /\ (op = "wait_ready" /\ variant = "AsyncI2cInterface" /\ resp.st = "ok"
               => resp.data = <<1>>)

C13_Witness ==
    /\ variant = "I2CInterface"
    /\ cycle = "ReadyCheck"
    /\ op = "wait_ready"
    /\ pc = "idle"
    /\ resp = RespOk(<<1>>)
    /\ ret = PollReady(Ok)

\* C14, as stated: all variants follow the cycle Idle, WriteIssued,
\* ReadyCheck, Ready, ReadIssued, Idle: a payload read is issued on the bus
\* only after a readiness check following the last write has reported
\* Ready-success, and a bus error in any state aborts the operation in
\* progress and leaves the interface able to start a new operation.
C14_ReadOnlyAfterReady ==
    /\ (op = "read" => cycle = "Ready")
    /\ (resp.st = "err" => pc = "idle" /\ busOwner # "pn532")

\* C14, amended: the layer does not enforce the cycle: whenever no call is
\* in progress and the bus is free, write, wait_ready and read can each be
\* started, in any state of the cycle, so a payload read is issued whenever
\* read() is called; a bus error in any state aborts the operation in
\* progress and leaves the interface able to start a new operation.
C14_CycleNotEnforcedErrorAborts ==
    /\ (pc = "idle" /\ busOwner = "free") =>
          /\ ENABLED Read(0)
          /\ ENABLED Write(<<>>)
          /\ ENABLED (WaitReady \/ WaitReadyIrq("high"))
    /\ (op = "read" => nIssued = 1 /\ call.kind \in {"exec", "read"} /\ pc # "gap")
    /\ (resp.st = "err" => pc = "idle" /\ busOwner # "pn532")

C14_Witness ==
    /\ variant = "I2CInterface"
    /\ cycle = "WriteIssued"
    /\ op = "read"
    /\ pc = "idle"
    /\ resp.st = "ok"
    /\ ret = Ok

\* C15: one AsyncI2cInterface: at every moment at most one bus operation
\* is outstanding; a bus operation of a call is issued only when the call
\* before it has returned, the status reads of one wait_ready() are issued
\* one after another, each after the previous one completed, and nothing
\* else is issued until the outstanding operation completes.
C15_AsyncBusOperationsInCallOrder ==
    /\ [](variant = "AsyncI2cInterface" => (busOwner = "pn532" <=> pc = "await"))
    /\ [][(variant = "AsyncI2cInterface" /\ busOwner # "pn532" /\ busOwner' = "pn532") =>
            \/ /\ pc = "idle"
               /\ op = "none" \/ ret # NoRet
               /\ nIssued' = 1
               /\ ret' = NoRet
            \/ /\ pc = "gap"
               /\ op = "wait_ready"
               /\ resp = RespOk(resp.data)
               /\ <<op, frame, buf, cycle, ret, call>>' = <<op, frame, buf, cycle, ret, call>>
               /\ nIssued' = Min(nIssued + 1, MaxPolls)]_vars
    /\ [][(variant = "AsyncI2cInterface" /\ busOwner = "pn532") =>
            /\ busOwner' = "free"
            /\ resp'.st \in {"ok", "err"}
            /\ <<op, frame, call, nIssued, cycle>>' = <<op, frame, call, nIssued, cycle>>]_vars

C15_Witness ==
    /\ variant = "AsyncI2cInterface"
    /\ cycle = "WriteIssued"
    /\ op = "wait_ready"
    /\ pc = "await"
    /\ nIssued = 2
    /\ busOwner = "pn532"

\* C16: every bus operation issued by any variant in any reachable state
\* (frame write, status read, payload read / transaction) is addressed to
\* the constant device address 0x24, and the status-byte and asynchronous
\* variants compare the status byte against the constant 0x01; neither
\* value changes over any sequence of calls.
C16_AddressAndSentinelConstant ==
    /\ (call # NoCall => call.kind \in {"write", "read", "exec"} /\ call.addr = 36)
    /\ (op = "wait_ready" /\ variant # "I2CInterfaceWithIrq" /\ pc = "idle" /\ resp.st = "ok")
          => (ret.kind \in {"ReadyOk", "Ok"} <=> resp.data[1] = 1)

C16_Witness ==
    /\ variant = "I2CInterfaceWithIrq"
    /\ cycle = "Ready"
    /\ op = "read"
    /\ pc = "await"
    /\ call.kind = "exec"
    /\ call.addr = 36
====
